---- MODULE Spec2Model ----
(***************************************************************************)
(* The action taxonomy of src/actionTypes.js: the action type constants,  *)
(* the action types and their unions (PerAccountAction, AllAccountsAction, *)
(* AccountIndependentAction, Action), and the runtime classifier           *)
(* isPerAccountApplicableAction with its switch over action.type.          *)
(*                                                                         *)
(* A Flow type is modelled as the set of discriminants (values of the      *)
(* `type` field) its values carry, so a union type `| A | B` is A \cup B.  *)
(***************************************************************************)
EXTENDS Integers, FiniteSets, Sequences, TLC

VARIABLES
    build,    \* "development" or "production": the build the program runs as
    action,   \* the action object handed to isPerAccountApplicableAction
    pc,       \* "ready": the call is about to be made; "done": it has ended
    arm,      \* the case arm of the switch the call matched
    outcome,  \* "none", "returned" or "threw"
    result,   \* the boolean returned (meaningful when outcome = "returned")
    logged,   \* whether the call recorded a diagnostic
    last,     \* the previous completed call, as a set of at most one record
    url,      \* internalLinks.js: the url string handed to the link functions
    streams,  \* internalLinks.js: the known streams (streamsById, streamsByName)
    streamId, \* internalLinks.js: the stream id handed to getStreamURL
    str,      \* internalLinks.js: the string handed to encodeHashComponent
    called,   \* internalLinks.js: the function last called, "none" before
    ret       \* internalLinks.js: how that call ended, and its value

actionVars == <<build, action, pc, arm, outcome, result, logged, last>>

linkVars == <<url, streams, streamId, str, called, ret>>

vars == <<build, action, pc, arm, outcome, result, logged, last,
          url, streams, streamId, str, called, ret>>

(* No function of internalLinks.js is in use.                              *)
LinksIdle ==
    /\ url = <<>>
    /\ streams = {}
    /\ streamId = 0
    /\ str = <<>>
    /\ called = "none"
    /\ ret = [kind |-> "none"]

----------------------------------------------------------------------------
(* Action type constants: the import list from ./actionConstants.          *)

REHYDRATE == "REHYDRATE"
APP_ONLINE == "APP_ONLINE"
DEAD_QUEUE == "DEAD_QUEUE"
APP_ORIENTATION == "APP_ORIENTATION"
DEBUG_FLAG_TOGGLE == "DEBUG_FLAG_TOGGLE"
ACCOUNT_SWITCH == "ACCOUNT_SWITCH"
ACCOUNT_REMOVE == "ACCOUNT_REMOVE"
LOGIN_SUCCESS == "LOGIN_SUCCESS"
LOGOUT == "LOGOUT"
DISMISS_SERVER_PUSH_SETUP_NOTICE == "DISMISS_SERVER_PUSH_SETUP_NOTICE"
GOT_PUSH_TOKEN == "GOT_PUSH_TOKEN"
UNACK_PUSH_TOKEN == "UNACK_PUSH_TOKEN"
ACK_PUSH_TOKEN == "ACK_PUSH_TOKEN"
MESSAGE_FETCH_START == "MESSAGE_FETCH_START"
MESSAGE_FETCH_ERROR == "MESSAGE_FETCH_ERROR"
MESSAGE_FETCH_COMPLETE == "MESSAGE_FETCH_COMPLETE"
REGISTER_START == "REGISTER_START"
REGISTER_ABORT == "REGISTER_ABORT"
REGISTER_COMPLETE == "REGISTER_COMPLETE"
SET_GLOBAL_SETTINGS == "SET_GLOBAL_SETTINGS"
DRAFT_UPDATE == "DRAFT_UPDATE"
PRESENCE_RESPONSE == "PRESENCE_RESPONSE"
MESSAGE_SEND_START == "MESSAGE_SEND_START"
MESSAGE_SEND_COMPLETE == "MESSAGE_SEND_COMPLETE"
DELETE_OUTBOX_MESSAGE == "DELETE_OUTBOX_MESSAGE"
TOGGLE_OUTBOX_SENDING == "TOGGLE_OUTBOX_SENDING"
EVENT_MESSAGE_DELETE == "EVENT_MESSAGE_DELETE"
EVENT_USER_GROUP_ADD == "EVENT_USER_GROUP_ADD"
EVENT_USER_GROUP_REMOVE == "EVENT_USER_GROUP_REMOVE"
EVENT_USER_GROUP_UPDATE == "EVENT_USER_GROUP_UPDATE"
EVENT_USER_GROUP_ADD_MEMBERS == "EVENT_USER_GROUP_ADD_MEMBERS"
EVENT_USER_GROUP_REMOVE_MEMBERS == "EVENT_USER_GROUP_REMOVE_MEMBERS"
EVENT_USER_STATUS_UPDATE == "EVENT_USER_STATUS_UPDATE"
EVENT_TYPING_START == "EVENT_TYPING_START"
EVENT_TYPING_STOP == "EVENT_TYPING_STOP"
EVENT_NEW_MESSAGE == "EVENT_NEW_MESSAGE"
EVENT_REACTION_ADD == "EVENT_REACTION_ADD"
EVENT_REACTION_REMOVE == "EVENT_REACTION_REMOVE"
EVENT_PRESENCE == "EVENT_PRESENCE"
EVENT_UPDATE_GLOBAL_NOTIFICATIONS_SETTINGS == "EVENT_UPDATE_GLOBAL_NOTIFICATIONS_SETTINGS"
EVENT_UPDATE_MESSAGE == "EVENT_UPDATE_MESSAGE"
EVENT_UPDATE_MESSAGE_FLAGS == "EVENT_UPDATE_MESSAGE_FLAGS"
EVENT_USER_ADD == "EVENT_USER_ADD"
CLEAR_TYPING == "CLEAR_TYPING"
EVENT_ALERT_WORDS == "EVENT_ALERT_WORDS"
INIT_TOPICS == "INIT_TOPICS"
EVENT_MUTED_TOPICS == "EVENT_MUTED_TOPICS"
EVENT_MUTED_USERS == "EVENT_MUTED_USERS"
EVENT_REALM_FILTERS == "EVENT_REALM_FILTERS"
EVENT_USER_REMOVE == "EVENT_USER_REMOVE"
EVENT_USER_UPDATE == "EVENT_USER_UPDATE"
EVENT_REALM_EMOJI_UPDATE == "EVENT_REALM_EMOJI_UPDATE"
EVENT_UPDATE_DISPLAY_SETTINGS == "EVENT_UPDATE_DISPLAY_SETTINGS"
EVENT_SUBMESSAGE == "EVENT_SUBMESSAGE"
EVENT_SUBSCRIPTION == "EVENT_SUBSCRIPTION"
EVENT == "EVENT"
DISMISS_SERVER_COMPAT_NOTICE == "DISMISS_SERVER_COMPAT_NOTICE"

(* Every constant of the import list: the discriminants of the catalog.    *)
actionConstants ==
    { REHYDRATE,
      APP_ONLINE,
      DEAD_QUEUE,
      APP_ORIENTATION,
      DEBUG_FLAG_TOGGLE,
      ACCOUNT_SWITCH,
      ACCOUNT_REMOVE,
      LOGIN_SUCCESS,
      LOGOUT,
      DISMISS_SERVER_PUSH_SETUP_NOTICE,
      GOT_PUSH_TOKEN,
      UNACK_PUSH_TOKEN,
      ACK_PUSH_TOKEN,
      MESSAGE_FETCH_START,
      MESSAGE_FETCH_ERROR,
      MESSAGE_FETCH_COMPLETE,
      REGISTER_START,
      REGISTER_ABORT,
      REGISTER_COMPLETE,
      SET_GLOBAL_SETTINGS,
      DRAFT_UPDATE,
      PRESENCE_RESPONSE,
      MESSAGE_SEND_START,
      MESSAGE_SEND_COMPLETE,
      DELETE_OUTBOX_MESSAGE,
      TOGGLE_OUTBOX_SENDING,
      EVENT_MESSAGE_DELETE,
      EVENT_USER_GROUP_ADD,
      EVENT_USER_GROUP_REMOVE,
      EVENT_USER_GROUP_UPDATE,
      EVENT_USER_GROUP_ADD_MEMBERS,
      EVENT_USER_GROUP_REMOVE_MEMBERS,
      EVENT_USER_STATUS_UPDATE,
      EVENT_TYPING_START,
      EVENT_TYPING_STOP,
      EVENT_NEW_MESSAGE,
      EVENT_REACTION_ADD,
      EVENT_REACTION_REMOVE,
      EVENT_PRESENCE,
      EVENT_UPDATE_GLOBAL_NOTIFICATIONS_SETTINGS,
      EVENT_UPDATE_MESSAGE,
      EVENT_UPDATE_MESSAGE_FLAGS,
      EVENT_USER_ADD,
      CLEAR_TYPING,
      EVENT_ALERT_WORDS,
      INIT_TOPICS,
      EVENT_MUTED_TOPICS,
      EVENT_MUTED_USERS,
      EVENT_REALM_FILTERS,
      EVENT_USER_REMOVE,
      EVENT_USER_UPDATE,
      EVENT_REALM_EMOJI_UPDATE,
      EVENT_UPDATE_DISPLAY_SETTINGS,
      EVENT_SUBMESSAGE,
      EVENT_SUBSCRIPTION,
      EVENT,
      DISMISS_SERVER_COMPAT_NOTICE }

----------------------------------------------------------------------------
(* The action types, each the set of values its `type` field can take.     *)

RehydrateAction == {REHYDRATE}
AppOnlineAction == {APP_ONLINE}
DeadQueueAction == {DEAD_QUEUE}
AppOrientationAction == {APP_ORIENTATION}
DebugFlagToggleAction == {DEBUG_FLAG_TOGGLE}
DismissServerCompatNoticeAction == {DISMISS_SERVER_COMPAT_NOTICE}
AccountSwitchAction == {ACCOUNT_SWITCH}
AccountRemoveAction == {ACCOUNT_REMOVE}
LoginSuccessAction == {LOGIN_SUCCESS}
LogoutAction == {LOGOUT}
DismissServerPushSetupNoticeAction == {DISMISS_SERVER_PUSH_SETUP_NOTICE}
GotPushTokenAction == {GOT_PUSH_TOKEN}
UnackPushTokenAction == {UNACK_PUSH_TOKEN}
AckPushTokenAction == {ACK_PUSH_TOKEN}
MessageFetchStartAction == {MESSAGE_FETCH_START}
MessageFetchErrorAction == {MESSAGE_FETCH_ERROR}
MessageFetchCompleteAction == {MESSAGE_FETCH_COMPLETE}
RegisterStartAction == {REGISTER_START}
RegisterAbortAction == {REGISTER_ABORT}
RegisterCompleteAction == {REGISTER_COMPLETE}
EventAlertWordsAction == {EVENT_ALERT_WORDS}
EventRealmFiltersAction == {EVENT_REALM_FILTERS}
EventUpdateGlobalNotificationsSettingsAction == {EVENT_UPDATE_GLOBAL_NOTIFICATIONS_SETTINGS}
EventSubscriptionAddAction == {EVENT_SUBSCRIPTION}
EventSubscriptionRemoveAction == {EVENT_SUBSCRIPTION}
EventSubscriptionUpdateAction == {EVENT_SUBSCRIPTION}
EventSubscriptionPeerAddAction == {EVENT_SUBSCRIPTION}
EventSubscriptionPeerRemoveAction == {EVENT_SUBSCRIPTION}
GenericEventAction == {EVENT}
EventNewMessageAction == {EVENT_NEW_MESSAGE}
EventSubmessageAction == {EVENT_SUBMESSAGE}
EventMessageDeleteAction == {EVENT_MESSAGE_DELETE}
EventUpdateMessageAction == {EVENT_UPDATE_MESSAGE}
EventReactionAddAction == {EVENT_REACTION_ADD}
EventReactionRemoveAction == {EVENT_REACTION_REMOVE}
EventPresenceAction == {EVENT_PRESENCE}
EventTypingStartAction == {EVENT_TYPING_START}
EventTypingStopAction == {EVENT_TYPING_STOP}
EventUpdateMessageFlagsAction == {EVENT_UPDATE_MESSAGE_FLAGS}
EventUserAddAction == {EVENT_USER_ADD}
EventUserRemoveAction == {EVENT_USER_REMOVE}
EventUserUpdateAction == {EVENT_USER_UPDATE}
EventMutedTopicsAction == {EVENT_MUTED_TOPICS}
EventMutedUsersAction == {EVENT_MUTED_USERS}
EventUserGroupAddAction == {EVENT_USER_GROUP_ADD}
EventUserGroupRemoveAction == {EVENT_USER_GROUP_REMOVE}
EventUserGroupUpdateAction == {EVENT_USER_GROUP_UPDATE}
EventUserGroupAddMembersAction == {EVENT_USER_GROUP_ADD_MEMBERS}
EventUserGroupRemoveMembersAction == {EVENT_USER_GROUP_REMOVE_MEMBERS}
EventRealmEmojiUpdateAction == {EVENT_REALM_EMOJI_UPDATE}
EventUpdateDisplaySettingsAction == {EVENT_UPDATE_DISPLAY_SETTINGS}
EventUserStatusUpdateAction == {EVENT_USER_STATUS_UPDATE}
SetGlobalSettingsAction == {SET_GLOBAL_SETTINGS}
DraftUpdateAction == {DRAFT_UPDATE}
PresenceResponseAction == {PRESENCE_RESPONSE}
MessageSendStartAction == {MESSAGE_SEND_START}
MessageSendCompleteAction == {MESSAGE_SEND_COMPLETE}
DeleteOutboxMessageAction == {DELETE_OUTBOX_MESSAGE}
ToggleOutboxSendingAction == {TOGGLE_OUTBOX_SENDING}
ClearTypingAction == {CLEAR_TYPING}
InitTopicsAction == {INIT_TOPICS}

----------------------------------------------------------------------------
(* Unions of event action types.                                           *)

EventReactionAction == EventReactionAddAction \cup EventReactionRemoveAction

EventSubscriptionAction ==
    EventSubscriptionAddAction
    \cup EventSubscriptionRemoveAction
    \cup EventSubscriptionUpdateAction
    \cup EventSubscriptionPeerAddAction
    \cup EventSubscriptionPeerRemoveAction

EventTypingAction == EventTypingStartAction \cup EventTypingStopAction

EventUserAction == EventUserAddAction \cup EventUserRemoveAction \cup EventUserUpdateAction

EventUserGroupAction ==
    EventUserGroupAddAction
    \cup EventUserGroupRemoveAction
    \cup EventUserGroupUpdateAction
    \cup EventUserGroupAddMembersAction
    \cup EventUserGroupRemoveMembersAction

(* Covers all actions we make from server events.                          *)
EventAction ==
    GenericEventAction
    \cup EventAlertWordsAction
    \cup EventMessageDeleteAction
    \cup EventMutedTopicsAction
    \cup EventMutedUsersAction
    \cup EventNewMessageAction
    \cup EventSubmessageAction
    \cup EventPresenceAction
    \cup EventRealmEmojiUpdateAction
    \cup EventRealmFiltersAction
    \cup EventUpdateGlobalNotificationsSettingsAction
    \cup EventUpdateDisplaySettingsAction
    \cup EventUpdateMessageAction
    \cup EventUpdateMessageFlagsAction
    \cup EventReactionAction
    \cup EventSubscriptionAction
    \cup EventTypingAction
    \cup EventUserAction
    \cup EventUserGroupAction
    \cup EventUserStatusUpdateAction

----------------------------------------------------------------------------
(* The convenience unions.                                                 *)

AccountAction ==
    AccountSwitchAction
    \cup AccountRemoveAction
    \cup LoginSuccessAction
    \cup LogoutAction
    \cup DismissServerPushSetupNoticeAction

(* LoadingAction with DeadQueueAction left out of the union.               *)
LoadingAction_noDeadQueue ==
    RegisterStartAction
    \cup RegisterAbortAction
    \cup RegisterCompleteAction

LoadingAction ==
    DeadQueueAction
    \cup RegisterStartAction
    \cup RegisterAbortAction
    \cup RegisterCompleteAction

MessageAction ==
    MessageFetchStartAction \cup MessageFetchErrorAction \cup MessageFetchCompleteAction

OutboxAction ==
    MessageSendStartAction \cup MessageSendCompleteAction \cup DeleteOutboxMessageAction

----------------------------------------------------------------------------
(* The primary subtypes of Action.                                         *)

(* Plain actions applying to this account's state.                         *)
PerAccountAction ==
    EventAction
    \cup LoadingAction
    \cup MessageAction
    \cup OutboxAction
    \cup DraftUpdateAction
    \cup PresenceResponseAction
    \cup InitTopicsAction
    \cup ClearTypingAction
    \cup DismissServerCompatNoticeAction
    \cup DismissServerPushSetupNoticeAction
    \cup ToggleOutboxSendingAction

(* AllAccountsAction with the two push-token actions left out.             *)
AllAccountsAction_noPushToken ==
    RehydrateAction
    \cup AccountAction

(* Plain actions applying to other accounts' per-account state.            *)
AllAccountsAction ==
    RehydrateAction
    \cup AccountAction
    \cup AckPushTokenAction \cup UnackPushTokenAction

(* Plain actions not affecting any per-account state.                      *)
AccountIndependentAction ==
    SetGlobalSettingsAction
    \cup AppOnlineAction
    \cup AppOrientationAction
    \cup GotPushTokenAction
    \cup DebugFlagToggleAction

(* Covers all plain actions we ever dispatch.                              *)
Action ==
    PerAccountAction
    \cup AllAccountsAction
    \cup AccountIndependentAction

(* Plain actions that per-account reducers may respond to.                 *)
PerAccountApplicableAction ==
    PerAccountAction
    \cup AllAccountsAction

(* Actions that can be dispatched without reference to a specific account. *)
DispatchableWithoutAccountAction ==
    AllAccountsAction
    \cup AccountIndependentAction

----------------------------------------------------------------------------
(* The case labels of the switch in isPerAccountApplicableAction, one set  *)
(* for each arm.                                                           *)

CasesPerAccount ==
    { EVENT,
      EVENT_ALERT_WORDS,
      EVENT_MESSAGE_DELETE,
      EVENT_MUTED_TOPICS,
      EVENT_MUTED_USERS,
      EVENT_NEW_MESSAGE,
      EVENT_PRESENCE,
      EVENT_REACTION_ADD,
      EVENT_REACTION_REMOVE,
      EVENT_REALM_EMOJI_UPDATE,
      EVENT_REALM_FILTERS,
      EVENT_SUBMESSAGE,
      EVENT_SUBSCRIPTION,
      EVENT_TYPING_START,
      EVENT_TYPING_STOP,
      EVENT_UPDATE_DISPLAY_SETTINGS,
      EVENT_UPDATE_GLOBAL_NOTIFICATIONS_SETTINGS,
      EVENT_UPDATE_MESSAGE,
      EVENT_UPDATE_MESSAGE_FLAGS,
      EVENT_USER_ADD,
      EVENT_USER_GROUP_ADD,
      EVENT_USER_GROUP_ADD_MEMBERS,
      EVENT_USER_GROUP_REMOVE,
      EVENT_USER_GROUP_REMOVE_MEMBERS,
      EVENT_USER_GROUP_UPDATE,
      EVENT_USER_REMOVE,
      EVENT_USER_STATUS_UPDATE,
      EVENT_USER_UPDATE,
      DEAD_QUEUE,
      REGISTER_START,
      REGISTER_ABORT,
      REGISTER_COMPLETE,
      MESSAGE_FETCH_COMPLETE,
      MESSAGE_FETCH_ERROR,
      MESSAGE_FETCH_START,
      MESSAGE_SEND_COMPLETE,
      MESSAGE_SEND_START,
      DELETE_OUTBOX_MESSAGE,
      DRAFT_UPDATE,
      PRESENCE_RESPONSE,
      INIT_TOPICS,
      CLEAR_TYPING,
      DISMISS_SERVER_COMPAT_NOTICE,
      DISMISS_SERVER_PUSH_SETUP_NOTICE,
      TOGGLE_OUTBOX_SENDING }

(* The All-Accounts arm with the labels ACCOUNT_SWITCH and ACCOUNT_REMOVE  *)
(* forgotten.                                                              *)
CasesAllAccounts_missing ==
    { REHYDRATE,
      LOGIN_SUCCESS,
      LOGOUT,
      ACK_PUSH_TOKEN,
      UNACK_PUSH_TOKEN }

CasesAllAccounts ==
    { REHYDRATE,
      ACCOUNT_SWITCH,
      ACCOUNT_REMOVE,
      LOGIN_SUCCESS,
      LOGOUT,
      ACK_PUSH_TOKEN,
      UNACK_PUSH_TOKEN }

(* The Account-Independent arm with the label APP_ORIENTATION forgotten.   *)
CasesAccountIndependent_noOrientation ==
    { SET_GLOBAL_SETTINGS,
      APP_ONLINE,
      GOT_PUSH_TOKEN,
      DEBUG_FLAG_TOGGLE }

CasesAccountIndependent ==
    { SET_GLOBAL_SETTINGS,
      APP_ONLINE,
      APP_ORIENTATION,
      GOT_PUSH_TOKEN,
      DEBUG_FLAG_TOGGLE }

----------------------------------------------------------------------------
(* ensureUnreachable, from ./generics: what the default branch calls.  A   *)
(* classification failure is fatal in a development build; in a production *)
(* build it is logged and the call returns.                                *)
ensureUnreachable(b) ==
    IF b = "development"
    THEN [threw |-> TRUE, logged |-> FALSE]
    ELSE [threw |-> FALSE, logged |-> TRUE]

(* The classifier with the All-Accounts arm returning false.               *)
isPerAccountApplicableAction_allAccountsFalse(a, b) ==
    IF a.type \in CasesPerAccount
    THEN [arm |-> "PerAccount", outcome |-> "returned", result |-> TRUE,
          logged |-> FALSE, action |-> a]
    ELSE IF a.type \in CasesAllAccounts
    THEN [arm |-> "AllAccounts", outcome |-> "returned", result |-> FALSE,
          logged |-> FALSE, action |-> a]
    ELSE IF a.type \in CasesAccountIndependent
    THEN [arm |-> "AccountIndependent", outcome |-> "returned", result |-> FALSE,
          logged |-> FALSE, action |-> a]
    ELSE LET u == ensureUnreachable(b) IN
         IF u.threw
         THEN [arm |-> "default", outcome |-> "threw", result |-> FALSE,
               logged |-> u.logged, action |-> a]
         ELSE [arm |-> "default", outcome |-> "returned", result |-> FALSE,
               logged |-> u.logged, action |-> a]

(* The classifier looking at the payload: an EVENT_SUBSCRIPTION action     *)
(* with op 'peer_remove' is answered false.                                *)
isPerAccountApplicableAction_readsPayload(a, b) ==
    IF a.type \in CasesPerAccount
    THEN [arm |-> "PerAccount", outcome |-> "returned",
          result |-> ~(a.type = EVENT_SUBSCRIPTION /\ a.op = "peer_remove"),
          logged |-> FALSE, action |-> a]
    ELSE IF a.type \in CasesAllAccounts
    THEN [arm |-> "AllAccounts", outcome |-> "returned", result |-> TRUE,
          logged |-> FALSE, action |-> a]
    ELSE IF a.type \in CasesAccountIndependent
    THEN [arm |-> "AccountIndependent", outcome |-> "returned", result |-> FALSE,
          logged |-> FALSE, action |-> a]
    ELSE LET u == ensureUnreachable(b) IN
         IF u.threw
         THEN [arm |-> "default", outcome |-> "threw", result |-> FALSE,
               logged |-> u.logged, action |-> a]
         ELSE [arm |-> "default", outcome |-> "returned", result |-> FALSE,
               logged |-> u.logged, action |-> a]

(* isPerAccountApplicableAction(action), run in build b: the arm of the    *)
(* switch that action.type matches, how the call ends, the boolean it      *)
(* returns, and the action object as the call leaves it.  The casts        *)
(* `(action: PerAccountAction)` are Flow annotations with no runtime       *)
(* effect.                                                                 *)
isPerAccountApplicableAction(a, b) ==
    IF a.type \in CasesPerAccount
    THEN [arm |-> "PerAccount", outcome |-> "returned", result |-> TRUE,
          logged |-> FALSE, action |-> a]
    ELSE IF a.type \in CasesAllAccounts
    THEN [arm |-> "AllAccounts", outcome |-> "returned", result |-> TRUE,
          logged |-> FALSE, action |-> a]
    ELSE IF a.type \in CasesAccountIndependent
    THEN [arm |-> "AccountIndependent", outcome |-> "returned", result |-> FALSE,
          logged |-> FALSE, action |-> a]
    ELSE LET u == ensureUnreachable(b) IN
         IF u.threw
         THEN [arm |-> "default", outcome |-> "threw", result |-> FALSE,
               logged |-> u.logged, action |-> a]
         ELSE [arm |-> "default", outcome |-> "returned", result |-> FALSE,
               logged |-> u.logged, action |-> a]

----------------------------------------------------------------------------
(* The inputs: action objects, a discriminant with a payload.              *)

(* Largest event id of a payload.                                          *)
MaxId == 1

(* The `id` of a ServerEvent.                                              *)
ServerEvent == 0..MaxId

(* The `op` of the five EventSubscription*Action types.                    *)
EventSubscriptionOps == {"add", "remove", "update", "peer_add", "peer_remove"}

(* The value of `op` in an action object that has no such field.           *)
NoOp == "none"

(* Values of action.type that are no constant of the catalog.              *)
UnknownTypes == {"made-up-future-event", "TYPO_ACCOUNT_SWITCH"}

Builds == {"development", "production"}

OpsOf(t) == IF t = EVENT_SUBSCRIPTION THEN EventSubscriptionOps ELSE {NoOp}

ActionsOfType(t) == {[type |-> t, op |-> o, id |-> i] : o \in OpsOf(t), i \in ServerEvent}

(* Every action object with a discriminant of the catalog.                 *)
CatalogActions == UNION {ActionsOfType(t) : t \in actionConstants}

(* Every action object a caller can pass, well-typed or not.               *)
AllActions == UNION {ActionsOfType(t) : t \in actionConstants \cup UnknownTypes}

----------------------------------------------------------------------------
(* The state machine: a caller hands one action after another to           *)
(* isPerAccountApplicableAction.                                           *)

Init ==
    /\ build \in Builds
    /\ action \in AllActions
    /\ pc = "ready"
    /\ arm = "none"
    /\ outcome = "none"
    /\ result = FALSE
    /\ logged = FALSE
    /\ last = {}
    /\ LinksIdle

(* The call isPerAccountApplicableAction(action).                          *)
Call ==
    /\ pc = "ready"
    /\ LET r == isPerAccountApplicableAction(action, build) IN
        /\ arm' = r.arm
        /\ outcome' = r.outcome
        /\ result' = r.result
        /\ logged' = r.logged
        /\ action' = r.action
    /\ pc' = "done"
    /\ UNCHANGED <<build, last>>
    /\ UNCHANGED linkVars

(* The caller goes on to the next action; a call that threw ended the      *)
(* program.                                                                *)
NextAction ==
    /\ pc = "done"
    /\ outcome = "returned"
    /\ \E a \in AllActions : action' = a
    /\ last' = {[action |-> action, arm |-> arm, outcome |-> outcome, result |-> result]}
    /\ pc' = "ready"
    /\ arm' = "none"
    /\ outcome' = "none"
    /\ result' = FALSE
    /\ logged' = FALSE
    /\ UNCHANGED build
    /\ UNCHANGED linkVars

Next == Call \/ NextAction

Spec == Init /\ [][Next]_vars

TypeOK ==
    /\ build \in Builds
    /\ action \in AllActions
    /\ pc \in {"ready", "done"}
    /\ arm \in {"none", "PerAccount", "AllAccounts", "AccountIndependent", "default"}
    /\ outcome \in {"none", "returned", "threw"}
    /\ result \in BOOLEAN
    /\ logged \in BOOLEAN
    /\ Cardinality(last) <= 1

----------------------------------------------------------------------------
(* Properties.                                                             *)

Partitions == {"PerAccount", "AllAccounts", "AccountIndependent"}

(* The union type that states a partition's membership.                    *)
PartitionUnion(p) ==
    CASE p = "PerAccount" -> PerAccountAction
      [] p = "AllAccounts" -> AllAccountsAction
      [] p = "AccountIndependent" -> AccountIndependentAction

(* The partitions whose union holds discriminant t.                        *)
PartitionsOf(t) == {p \in Partitions : t \in PartitionUnion(p)}

Classified == pc = "done"

(* C1: every discriminant of the catalog is a member of exactly one of    *)
(* the unions PerAccountAction, AllAccountsAction and                      *)
(* AccountIndependentAction, so no classified catalog action has a type    *)
(* that two of the unions hold.                                            *)
C1_PartitionsDisjoint ==
    (Classified /\ action.type \in actionConstants)
        => Cardinality(PartitionsOf(action.type)) = 1

(* C2: a call with a discriminant of the catalog (a constant of the import *)
(* list, equivalently a member of Action) matches an explicit case arm and *)
(* returns from it; it never reaches the default branch.                   *)
C2_ClassifierTotal ==
    /\ actionConstants = Action
    /\ (Classified /\ action.type \in actionConstants)
        => (arm \in Partitions /\ outcome = "returned")

C2_Witness ==
    /\ Classified
    /\ action.type = APP_ORIENTATION
    /\ arm = "AccountIndependent"
    /\ outcome = "returned"

(* C3: the sizes of the three partition unions add up to the size of the   *)
(* catalog (the Action union), no discriminant being counted twice.        *)
C3_ExhaustiveByCount ==
    Classified =>
        Cardinality(PerAccountAction) + Cardinality(AllAccountsAction)
            + Cardinality(AccountIndependentAction) = Cardinality(Action)

(* C4: for every catalog action the classifier returns true exactly when   *)
(* the action's type is in PerAccountAction or AllAccountsAction, and      *)
(* false exactly when it is in AccountIndependentAction.                   *)
C4_DerivationConsistent ==
    (Classified /\ action.type \in Action) =>
        /\ outcome = "returned"
        /\ result = TRUE <=> action.type \in PerAccountApplicableAction
        /\ result = TRUE <=> action.type \in PerAccountAction \cup AllAccountsAction
        /\ result = FALSE <=> action.type \in AccountIndependentAction

C4_Witness ==
    /\ Classified
    /\ action.type \in AllAccountsAction \ PerAccountAction
    /\ result = TRUE
    /\ \E l \in last : l.action.type \in AccountIndependentAction /\ l.result = FALSE

(* C5: a call whose action.type matches no case arm does not end in an     *)
(* ordinary return that a catalog action's call could have produced.       *)
C5_UnknownNeverSwallowed ==
    (Classified /\ action.type \notin actionConstants) =>
        ~ /\ outcome = "returned"
          /\ \E c \in CatalogActions :
                LET r == isPerAccountApplicableAction(c, build) IN
                r.outcome = "returned" /\ r.result = result

(* C6: the partition of the case arm a discriminant matches is the         *)
(* partition union that holds the discriminant, and no other partition     *)
(* union holds it.                                                         *)
C6_SwitchAgreesWithUnions ==
    (Classified /\ action.type \in actionConstants) =>
        /\ arm \in Partitions
        /\ PartitionsOf(action.type) = {arm}

(* C7: EVENT_TYPING_START is classified Per-Account, ACCOUNT_SWITCH        *)
(* All-Accounts and APP_ONLINE Account-Independent, the classifier         *)
(* returning true, true and false.                                         *)
C7_Reference(type, a, out, res) ==
    /\ type = EVENT_TYPING_START =>
        /\ a = "PerAccount" /\ out = "returned" /\ res = TRUE
        /\ type \in PerAccountAction
    /\ type = ACCOUNT_SWITCH =>
        /\ a = "AllAccounts" /\ out = "returned" /\ res = TRUE
        /\ type \in AllAccountsAction
    /\ type = APP_ONLINE =>
        /\ a = "AccountIndependent" /\ out = "returned" /\ res = FALSE
        /\ type \in AccountIndependentAction

C7_ReferenceScenarios ==
    /\ Classified => C7_Reference(action.type, arm, outcome, result)
    /\ \A l \in last : C7_Reference(l.action.type, l.arm, l.outcome, l.result)

C7_Witness ==
    /\ Classified
    /\ action.type \in {EVENT_TYPING_START, ACCOUNT_SWITCH, APP_ONLINE}
    /\ \E l \in last :
        /\ l.action.type \in {EVENT_TYPING_START, ACCOUNT_SWITCH, APP_ONLINE}
        /\ l.action.type # action.type
        /\ l.result # result

(* C8: ACK_PUSH_TOKEN and UNACK_PUSH_TOKEN are classified All-Accounts     *)
(* (the classifier returns true), GOT_PUSH_TOKEN Account-Independent (it   *)
(* returns false).                                                         *)
C8_PushTokenSplit ==
    (Classified /\ outcome = "returned") =>
        /\ action.type \in {ACK_PUSH_TOKEN, UNACK_PUSH_TOKEN} =>
            /\ arm = "AllAccounts"
            /\ result = TRUE
            /\ PartitionsOf(action.type) = {"AllAccounts"}
        /\ action.type = GOT_PUSH_TOKEN =>
            /\ arm = "AccountIndependent"
            /\ result = FALSE
            /\ PartitionsOf(action.type) = {"AccountIndependent"}

C8_Witness ==
    /\ Classified
    /\ action.type = GOT_PUSH_TOKEN
    /\ result = FALSE
    /\ \E l \in last : l.action.type \in {ACK_PUSH_TOKEN, UNACK_PUSH_TOKEN} /\ l.result = TRUE

(* C9: DEAD_QUEUE is a member of the Per-Account or the All-Accounts       *)
(* partition, never of Account-Independent, and the classifier returns     *)
(* true for it.                                                            *)
C9_DeadQueueRouted ==
    (Classified /\ action.type = DEAD_QUEUE) =>
        /\ action.type \in PerAccountAction \cup AllAccountsAction
        /\ action.type \notin AccountIndependentAction
        /\ arm \in {"PerAccount", "AllAccounts"}
        /\ outcome = "returned"
        /\ result = TRUE

C9_Witness ==
    /\ Classified
    /\ action.type = DEAD_QUEUE
    /\ result = TRUE

(* C10: the call leaves the action object unchanged, and its result        *)
(* depends on action.type alone: it ends as the previous call did whenever *)
(* the two actions have the same type, whatever their payloads (the same   *)
(* action again included).                                                 *)
C10_PureInDiscriminant ==
    [][(pc = "ready" /\ pc' = "done") =>
        /\ action' = action
        /\ \A l \in last :
            l.action.type = action.type =>
                (l.outcome = outcome' /\ l.result = result' /\ l.arm = arm')
        /\ action.type = EVENT_SUBSCRIPTION => (arm' = "PerAccount" /\ result' = TRUE)
      ]_vars

C10_Witness ==
    /\ Classified
    /\ action.type = EVENT_SUBSCRIPTION
    /\ action.op = "peer_remove"
    /\ result = TRUE
    /\ \E l \in last :
        /\ l.action.type = EVENT_SUBSCRIPTION
        /\ l.action.op # action.op
        /\ l.action.id # action.id
        /\ l.result = TRUE

----------------------------------------------------------------------------
(* src/utils/internalLinks.js.  A JavaScript string is modelled as the     *)
(* sequence of its characters; a character is a one-character string, or   *)
(* "U+<code point>" for a character outside printable ASCII.               *)

(* The printable ASCII characters, code points 32 to 126 (the double       *)
(* quote, the backslash and the backquote written by their code points).   *)
Ascii ==
    << " ", "!", "U+34", "#", "$", "%", "&", "'", "(", ")", "*", "+", ",", "-", ".", "/",
       "0", "1", "2", "3", "4", "5", "6", "7", "8", "9", ":", ";", "<", "=", ">", "?",
       "@", "A", "B", "C", "D", "E", "F", "G", "H", "I", "J", "K", "L", "M", "N", "O",
       "P", "Q", "R", "S", "T", "U", "V", "W", "X", "Y", "Z", "[", "U+92", "]", "^", "_",
       "U+96", "a", "b", "c", "d", "e", "f", "g", "h", "i", "j", "k", "l", "m", "n", "o",
       "p", "q", "r", "s", "t", "u", "v", "w", "x", "y", "z", "{", "|", "}", "~" >>

AsciiSet == {Ascii[i] : i \in 1..Len(Ascii)}

(* The characters of code points 0..9 and A..Z (upper case hex digits      *)
(* among them) and a..z.                                                   *)
Digits == {"0", "1", "2", "3", "4", "5", "6", "7", "8", "9"}

UpperCase == {Ascii[i] : i \in 34..59}

LowerCase == {Ascii[i] : i \in 66..91}

HexDigits == <<"0", "1", "2", "3", "4", "5", "6", "7", "8", "9", "A", "B", "C", "D", "E", "F">>

(* The character of a code point.                                          *)
Chr(cp) == IF cp \in 32..126 THEN Ascii[cp - 31] ELSE "U+" \o ToString(cp)

(* The code points outside printable ASCII that input strings draw on:     *)
(* U+00E9 (two UTF-8 bytes) and U+20AC (three).                            *)
NonAsciiCodes == {233, 8364}

(* The code point of a character.                                          *)
CodeOf(c) ==
    IF c \in AsciiSet
    THEN 31 + (CHOOSE i \in 1..Len(Ascii) : Ascii[i] = c)
    ELSE CHOOSE cp \in NonAsciiCodes : Chr(cp) = c

(* String.prototype.toLowerCase on one character.                          *)
ToLower(c) == IF c \in UpperCase THEN Chr(CodeOf(c) + 32) ELSE c

RECURSIVE Concat(_)
(* The concatenation of a sequence of strings.                             *)
Concat(ss) == IF ss = <<>> THEN <<>> ELSE Head(ss) \o Concat(Tail(ss))

(* Whether p occurs in s at index i (1-based).                             *)
OccursAt(s, p, i) ==
    /\ i >= 1
    /\ i + Len(p) - 1 <= Len(s)
    /\ \A k \in 1..Len(p) : s[i + k - 1] = p[k]

(* String.prototype.startsWith.                                            *)
StartsWith(s, p) == OccursAt(s, p, 1)

(* String.prototype.includes.                                              *)
Includes(s, p) == \E i \in 1..(Len(s) + 1) : OccursAt(s, p, i)

(* The first index at which p occurs in s, 0 when it does not.             *)
IndexOf(s, p) ==
    IF Includes(s, p)
    THEN CHOOSE i \in 1..(Len(s) + 1) :
            OccursAt(s, p, i) /\ \A j \in 1..(i - 1) : ~OccursAt(s, p, j)
    ELSE 0

RECURSIVE Split(_, _)
(* String.prototype.split with a non-empty separator.                      *)
Split(s, sep) ==
    LET i == IndexOf(s, sep) IN
    IF i = 0
    THEN <<s>>
    ELSE <<SubSeq(s, 1, i - 1)>> \o Split(SubSeq(s, i + Len(sep), Len(s)), sep)

(* Array.prototype.pop on a non-empty array: its last element.             *)
Pop(arr) == arr[Len(arr)]

----------------------------------------------------------------------------
(* encodeURIComponent and decodeURIComponent (ECMAScript): percent-        *)
(* encoding of the UTF-8 bytes of a string.                                *)

(* The characters encodeURIComponent leaves as they are.                   *)
UriUnreserved ==
    UpperCase \cup LowerCase \cup Digits \cup {"-", "_", ".", "!", "~", "*", "'", "(", ")"}

(* The UTF-8 bytes of a code point.                                        *)
Utf8Bytes(cp) ==
    IF cp < 128 THEN <<cp>>
    ELSE IF cp < 2048 THEN <<192 + (cp \div 64), 128 + (cp % 64)>>
    ELSE IF cp < 65536
    THEN <<224 + (cp \div 4096), 128 + ((cp \div 64) % 64), 128 + (cp % 64)>>
    ELSE <<240 + (cp \div 262144), 128 + ((cp \div 4096) % 64),
           128 + ((cp \div 64) % 64), 128 + (cp % 64)>>

(* "%XX" for a byte, in upper case hex.                                    *)
PercentByte(b) == <<"%", HexDigits[(b \div 16) + 1], HexDigits[(b % 16) + 1]>>

RECURSIVE encodeURIComponent(_)
(* encodeURIComponent of a well-formed string (no lone surrogate).         *)
encodeURIComponent(s) ==
    IF s = <<>> THEN <<>>
    ELSE LET c == Head(s)
             bytes == Utf8Bytes(CodeOf(c))
         IN (IF c \in UriUnreserved
             THEN <<c>>
             ELSE Concat([k \in 1..Len(bytes) |-> PercentByte(bytes[k])]))
            \o encodeURIComponent(Tail(s))

(* The value of a hex digit, -1 for any other character.                   *)
HexVal(c) ==
    IF c \in Digits THEN CodeOf(c) - 48
    ELSE IF c \in {"A", "B", "C", "D", "E", "F"} THEN CodeOf(c) - 55
    ELSE IF c \in {"a", "b", "c", "d", "e", "f"} THEN CodeOf(c) - 87
    ELSE -1

(* The byte of the escape "%XX" at index i of s, -1 if there is none.      *)
ByteAt(s, i) ==
    IF /\ i + 2 <= Len(s)
       /\ s[i] = "%"
       /\ HexVal(s[i + 1]) >= 0
       /\ HexVal(s[i + 2]) >= 0
    THEN 16 * HexVal(s[i + 1]) + HexVal(s[i + 2])
    ELSE -1

(* The length of the UTF-8 sequence a lead byte starts, 0 for a byte that  *)
(* starts none.                                                            *)
Utf8Length(b) ==
    IF b < 128 THEN 1
    ELSE IF b \in 194..223 THEN 2
    ELSE IF b \in 224..239 THEN 3
    ELSE IF b \in 240..244 THEN 4
    ELSE 0

RECURSIVE Utf8Tail(_, _, _, _)
(* The code point of the n continuation escapes of s from index i on,      *)
(* added to acc; -1 if one of them is missing or no continuation byte.     *)
Utf8Tail(s, i, n, acc) ==
    IF n = 0 THEN acc
    ELSE LET b == ByteAt(s, i) IN
         IF b \in 128..191 THEN Utf8Tail(s, i + 3, n - 1, acc * 64 + (b - 128)) ELSE -1

(* The code point of the UTF-8 sequence of escapes at index i of s, -1 if  *)
(* it is malformed (overlong forms and surrogates included).               *)
Utf8CodePoint(s, i) ==
    LET lead(b, n) ==
            IF n = 1 THEN b ELSE IF n = 2 THEN b - 192 ELSE IF n = 3 THEN b - 224 ELSE b - 240
        least(n) == IF n = 1 THEN 0 ELSE IF n = 2 THEN 128 ELSE IF n = 3 THEN 2048 ELSE 65536
        checked(cp, n) ==
            IF cp < least(n) \/ cp \in 55296..57343 \/ cp > 1114111 THEN -1 ELSE cp
        sequence(b, n) ==
            checked(IF n = 0 THEN -1 ELSE Utf8Tail(s, i + 3, n - 1, lead(b, n)), n)
        escape(b) == sequence(b, IF b < 0 THEN 0 ELSE Utf8Length(b))
    IN escape(ByteAt(s, i))

RECURSIVE DecodeFrom(_, _)
(* decodeURIComponent of s from index i on: the decoded string, or         *)
(* threw = TRUE for the URIError of a malformed escape.                    *)
DecodeFrom(s, i) ==
    LET before(c, rest) == [threw |-> rest.threw, value |-> <<c>> \o rest.value]
        escaped(cp) ==
            IF cp < 0 THEN [threw |-> TRUE, value |-> <<>>]
            ELSE before(Chr(cp), DecodeFrom(s, i + 3 * Len(Utf8Bytes(cp))))
    IN
    IF i > Len(s) THEN [threw |-> FALSE, value |-> <<>>]
    ELSE IF s[i] # "%" THEN before(s[i], DecodeFrom(s, i + 1))
    ELSE escaped(Utf8CodePoint(s, i))

decodeURIComponent(s) ==
    LET decoded(d) == IF d.threw THEN [threw |-> TRUE, value |-> <<>>] ELSE d IN
    decoded(DecodeFrom(s, 1))

----------------------------------------------------------------------------
(* Dot-encoding.                                                           *)

(* hashReplacements with '.' replaced by itself.                           *)
hashReplacements_dotKept ==
    [c \in {"%", "(", ")", "."} |->
        CASE c = "%" -> <<".">>
          [] c = "(" -> <<".", "2", "8">>
          [] c = ")" -> <<".", "2", "9">>
          [] c = "." -> <<".">>]

hashReplacements ==
    [c \in {"%", "(", ")", "."} |->
        CASE c = "%" -> <<".">>
          [] c = "(" -> <<".", "2", "8">>
          [] c = ")" -> <<".", "2", "9">>
          [] c = "." -> <<".", "2", "E">>]

(* Decode a dot-encoded string: string.replace(/\./g, '%') handed to       *)
(* decodeURIComponent; its URIError is thrown on, after a breadcrumb.      *)
decodeHashComponent(string) ==
    decodeURIComponent([k \in 1..Len(string) |-> IF string[k] = "." THEN "%" ELSE string[k]])

(* encodeURIComponent(string).replace(/[%().]/g, ...).                     *)
encodeHashComponent(string) ==
    LET replace(e) ==
            Concat([k \in 1..Len(e) |->
                IF e[k] \in {"%", "(", ")", "."}
                THEN (IF e[k] \in DOMAIN hashReplacements THEN hashReplacements[e[k]] ELSE <<>>)
                ELSE <<e[k]>>])
    IN replace(encodeURIComponent(string))

----------------------------------------------------------------------------
(* The dot-encoding round trip: encodeHashComponent, then                  *)
(* decodeHashComponent on what it returned.                                *)

(* Longest string handed to encodeHashComponent.                           *)
MaxStrLen == 4

(* The characters of those strings: the four that hashReplacements         *)
(* rewrites, characters that spell an escape, a character                  *)
(* encodeURIComponent escapes, and one outside ASCII.                      *)
HashAlphabet == {"%", "(", ")", ".", "2", "E", " ", Chr(233)}

RECURSIVE StringsUpTo(_, _)
(* The strings over alphabet of length at most n.                          *)
StringsUpTo(alphabet, n) ==
    IF n = 0 THEN {<<>>}
    ELSE LET shorter == StringsUpTo(alphabet, n - 1) IN
         shorter \cup {Append(s, c) : s \in shorter, c \in alphabet}

(* No action is being classified.                                          *)
ActionsIdle ==
    /\ build = "production"
    /\ action = [type |-> REHYDRATE, op |-> NoOp, id |-> 0]
    /\ pc = "idle"
    /\ arm = "none"
    /\ outcome = "none"
    /\ result = FALSE
    /\ logged = FALSE
    /\ last = {}

(* How a call that returns a value of the given kind ended.                *)
Returned(r, kind) ==
    IF r.threw THEN [kind |-> "threw"] ELSE [kind |-> kind, value |-> r.value]

HashInit ==
    /\ ActionsIdle
    /\ url = <<>>
    /\ streams = {}
    /\ streamId = 0
    /\ str \in StringsUpTo(HashAlphabet, MaxStrLen)
    /\ called = "none"
    /\ ret = [kind |-> "none"]

EncodeHashComponent ==
    /\ called = "none"
    /\ called' = "encodeHashComponent"
    /\ ret' = [kind |-> "string", value |-> encodeHashComponent(str)]
    /\ UNCHANGED <<url, streams, streamId, str>>
    /\ UNCHANGED actionVars

DecodeHashComponent ==
    /\ called = "encodeHashComponent"
    /\ called' = "decodeHashComponent"
    /\ ret' = Returned(decodeHashComponent(ret.value), "string")
    /\ UNCHANGED <<url, streams, streamId, str>>
    /\ UNCHANGED actionVars

HashNext == EncodeHashComponent \/ DecodeHashComponent

SpecHash == HashInit /\ [][HashNext]_vars

(* C14: for every well-formed string s, decodeHashComponent of             *)
(* encodeHashComponent(s) returns s, also for strings that contain '%',    *)
(* '(', ')' and '.'.                                                       *)
C14_DotEncodingRoundTrips ==
    called = "decodeHashComponent" => ret = [kind |-> "string", value |-> str]

C14_Witness ==
    /\ called = "decodeHashComponent"
    /\ {"%", "(", ")", "."} \subseteq {str[k] : k \in 1..Len(str)}
    /\ ret = [kind |-> "string", value |-> str]

----------------------------------------------------------------------------
(* The URL class (WHATWG URL Standard), as far as the link functions use   *)
(* it: new URL(input, base) for an input whose scheme, if it has one, is   *)
(* followed by a host without credentials or port, and the getters         *)
(* origin, pathname, search, hash and toString.                            *)

SpecialSchemes == {<<"h", "t", "t", "p">>, <<"h", "t", "t", "p", "s">>}

SchemeChars == UpperCase \cup LowerCase \cup Digits \cup {"+", "-", "."}

(* String.prototype.toLowerCase.                                           *)
Lower(s) == [k \in 1..Len(s) |-> ToLower(s[k])]

RECURSIVE TrimSpaces(_)
(* The input without leading and trailing spaces.                          *)
TrimSpaces(s) ==
    IF s = <<>> THEN s
    ELSE IF Head(s) = " " THEN TrimSpaces(Tail(s))
    ELSE IF s[Len(s)] = " " THEN TrimSpaces(SubSeq(s, 1, Len(s) - 1))
    ELSE s

(* The first index of s that holds a character of cs, 0 if none does.      *)
FirstOf(s, cs) ==
    IF \E i \in 1..Len(s) : s[i] \in cs
    THEN CHOOSE i \in 1..Len(s) : s[i] \in cs /\ \A j \in 1..(i - 1) : s[j] \notin cs
    ELSE 0

(* The index of the ':' that ends the scheme s starts with, 0 if s starts  *)
(* with no scheme.                                                         *)
SchemeEnd(s) ==
    LET i == FirstOf(s, {":"}) IN
    IF /\ i > 1
       /\ s[1] \in UpperCase \cup LowerCase
       /\ \A k \in 2..(i - 1) : s[k] \in SchemeChars
    THEN i
    ELSE 0

RECURSIVE StripSlashes(_)
(* s without its leading slashes.                                          *)
StripSlashes(s) == IF s # <<>> /\ Head(s) = "/" THEN StripSlashes(Tail(s)) ELSE s

RECURSIVE PathSegments(_, _, _)
(* The path state: the segments segs from index i on added to the path     *)
(* acc, with '.' and '..' segments resolved.                               *)
PathSegments(segs, i, acc) ==
    IF i > Len(segs) THEN acc
    ELSE LET seg == segs[i]
             atEnd == IF i = Len(segs) THEN <<<<>>>> ELSE <<>>
         IN IF seg = <<".", ".">>
            THEN PathSegments(segs, i + 1,
                    (IF acc = <<>> THEN acc ELSE SubSeq(acc, 1, Len(acc) - 1)) \o atEnd)
            ELSE IF seg = <<".">>
            THEN PathSegments(segs, i + 1, acc \o atEnd)
            ELSE PathSegments(segs, i + 1, Append(acc, seg))

(* The fragment percent-encode set.                                        *)
FragmentEncode(s) ==
    Concat([k \in 1..Len(s) |->
        IF s[k] \in AsciiSet \ {" ", "U+34", "<", ">", "U+96"}
        THEN <<s[k]>>
        ELSE LET bytes == Utf8Bytes(CodeOf(s[k])) IN
             Concat([j \in 1..Len(bytes) |-> PercentByte(bytes[j])])])

(* s cut at its first character of cs: whether there is one, what is       *)
(* before it and what is after it.                                         *)
CutAt(s, cs) ==
    LET cut(k) ==
            [found |-> k > 0,
             before |-> IF k > 0 THEN SubSeq(s, 1, k - 1) ELSE s,
             after |-> IF k > 0 THEN SubSeq(s, k + 1, Len(s)) ELSE <<>>]
    IN cut(FirstOf(s, cs))

(* The URL record of an input with the given scheme; rest is what follows  *)
(* the scheme, authority is what it has for an authority, cut at the       *)
(* slash that ends the host; q and f are the cuts at '?' and at '#'.       *)
URLRecord(scheme, special, hasAuthority, authority, rest, q, f, base) ==
    IF special /\ hasAuthority /\ authority.before = <<>>
    THEN [threw |-> TRUE]
    ELSE IF ~special /\ ~hasAuthority
    THEN \* an opaque path
         [threw |-> FALSE, scheme |-> scheme, special |-> FALSE, host |-> <<>>,
          path |-> <<>>, opaque |-> rest,
          hasQuery |-> q.found, query |-> q.after,
          hasFragment |-> f.found, fragment |-> FragmentEncode(f.after)]
    ELSE IF hasAuthority
    THEN [threw |-> FALSE, scheme |-> scheme, special |-> special,
          host |-> Lower(authority.before),
          path |-> IF ~special /\ ~authority.found THEN <<>>
                   ELSE PathSegments(Split(authority.after, <<"/">>), 1, <<>>),
          opaque |-> <<>>,
          hasQuery |-> q.found, query |-> q.after,
          hasFragment |-> f.found, fragment |-> FragmentEncode(f.after)]
    ELSE \* relative to base
         [threw |-> FALSE, scheme |-> scheme, special |-> special, host |-> base.host,
          path |-> IF rest = <<>> THEN base.path
                   ELSE IF Head(rest) = "/"
                   THEN PathSegments(Split(Tail(rest), <<"/">>), 1, <<>>)
                   ELSE PathSegments(Split(rest, <<"/">>), 1,
                            SubSeq(base.path, 1, Len(base.path) - 1)),
          opaque |-> <<>>,
          hasQuery |-> IF rest = <<>> /\ ~q.found THEN base.hasQuery ELSE q.found,
          query |-> IF rest = <<>> /\ ~q.found THEN base.query ELSE q.after,
          hasFragment |-> f.found, fragment |-> FragmentEncode(f.after)]

(* new URL(input, base): the URL record, or threw = TRUE for the TypeError *)
(* of an input that is no valid URL (a special scheme without a host).     *)
NewURL(input, base) ==
    LET authorityState(scheme, special, hasAuthority, rest, q, f) ==
            URLRecord(scheme, special, hasAuthority,
                      CutAt(IF special THEN StripSlashes(rest) ELSE SubSeq(rest, 3, Len(rest)),
                            {"/"}),
                      rest, q, f, base)
        schemeState(scheme, explicit, rest, q, f) ==
            authorityState(scheme, scheme \in SpecialSchemes,
                           IF scheme \in SpecialSchemes
                           THEN (explicit /\ scheme # base.scheme) \/ StartsWith(rest, <<"/", "/">>)
                           ELSE StartsWith(rest, <<"/", "/">>),
                           rest, q, f)
        schemeStart(c, q, f) ==
            schemeState(IF c > 0 THEN Lower(SubSeq(q.before, 1, c - 1)) ELSE base.scheme,
                        c > 0,
                        IF c > 0 THEN SubSeq(q.before, c + 1, Len(q.before)) ELSE q.before,
                        q, f)
        queryCut(q, f) == schemeStart(SchemeEnd(q.before), q, f)
        fragmentCut(f) == queryCut(CutAt(f.before, {"?"}), f)
    IN fragmentCut(CutAt(TrimSpaces(input), {"#"}))

(* URL.prototype.origin.                                                   *)
Origin(u) == IF u.special THEN u.scheme \o <<":", "/", "/">> \o u.host ELSE <<"n", "u", "l", "l">>

(* URL.prototype.pathname.                                                 *)
Pathname(u) ==
    IF u.opaque # <<>> THEN u.opaque
    ELSE Concat([k \in 1..Len(u.path) |-> <<"/">> \o u.path[k]])

(* URL.prototype.search.                                                   *)
Search(u) == IF u.hasQuery /\ u.query # <<>> THEN <<"?">> \o u.query ELSE <<>>

(* URL.prototype.hash.                                                     *)
Hash(u) == IF u.hasFragment /\ u.fragment # <<>> THEN <<"#">> \o u.fragment ELSE <<>>

(* URL.prototype.toString.                                                 *)
Href(u) ==
    u.scheme \o <<":">>
    \o (IF u.special \/ u.host # <<>> THEN <<"/", "/">> \o u.host ELSE <<>>)
    \o Pathname(u)
    \o (IF u.hasQuery THEN <<"?">> \o u.query ELSE <<>>)
    \o (IF u.hasFragment THEN <<"#">> \o u.fragment ELSE <<>>)

----------------------------------------------------------------------------
(* The link functions.                                                     *)

(* getPathsFromUrl(url, realm): the parts of the narrow a link is for,     *)
(* without a trailing empty one.                                           *)
getPathsFromUrl(u, realm) ==
    LET trimmed(paths) ==
            IF Len(paths) > 0 /\ paths[Len(paths)] = <<>>
            THEN SubSeq(paths, 1, Len(paths) - 1)
            ELSE paths
    IN trimmed(Split(Pop(Split(Pop(Split(u, Href(realm))), <<"#", "n", "a", "r", "r", "o", "w", "/">>)), <<"/">>))

(* isInternalLink(url, realm): the boolean it returns, or threw = TRUE     *)
(* when new URL throws.                                                    *)
isInternalLink(u, realm) ==
    LET test(resolved) ==
            IF resolved.threw THEN [threw |-> TRUE]
            ELSE [threw |-> FALSE,
                  value |-> /\ Origin(resolved) = Origin(realm)
                            /\ Pathname(resolved) = <<"/">>
                            /\ Search(resolved) = <<>>
                            /\ StartsWith(Lower(Hash(resolved)), <<"#", "n", "a", "r", "r", "o", "w", "/">>)]
    IN test(NewURL(u, realm))

isMessageLink(u, realm) ==
    LET andNear(internal) ==
            IF internal.threw THEN internal
            ELSE [threw |-> FALSE, value |-> internal.value /\ Includes(u, <<"n", "e", "a", "r">>)]
    IN andNear(isInternalLink(u, realm))

(* getLinkType(url, realm): the LinkType, in paths with indices from 1.    *)
getLinkType(u, realm) ==
    LET typeOf(internal, paths) ==
            IF internal.threw THEN [threw |-> TRUE]
            ELSE IF ~internal.value THEN [threw |-> FALSE, value |-> "external"]
            ELSE IF \/ (Len(paths) = 2 /\ paths[1] = <<"p", "m", "-", "w", "i", "t", "h">>)
                    \/ (Len(paths) = 4 /\ paths[1] = <<"p", "m", "-", "w", "i", "t", "h">> /\ paths[3] = <<"n", "e", "a", "r">>)
            THEN [threw |-> FALSE, value |-> "pm"]
            ELSE IF /\ (Len(paths) = 4 \/ Len(paths) = 6)
                    /\ paths[1] = <<"s", "t", "r", "e", "a", "m">>
                    /\ (paths[3] = <<"s", "u", "b", "j", "e", "c", "t">> \/ paths[3] = <<"t", "o", "p", "i", "c">>)
            THEN [threw |-> FALSE, value |-> "topic"]
            ELSE IF Len(paths) = 2 /\ paths[1] = <<"s", "t", "r", "e", "a", "m">>
            THEN [threw |-> FALSE, value |-> "stream"]
            ELSE IF /\ Len(paths) = 2
                    /\ paths[1] = <<"i", "s">>
                    /\ \/ StartsWith(Lower(paths[2]), <<"p", "r", "i", "v", "a", "t", "e">>)
                       \/ StartsWith(Lower(paths[2]), <<"s", "t", "a", "r", "r", "e", "d">>)
                       \/ StartsWith(Lower(paths[2]), <<"m", "e", "n", "t", "i", "o", "n", "e", "d">>)
            THEN [threw |-> FALSE, value |-> "special"]
            ELSE [threw |-> FALSE, value |-> "home"]
    IN typeOf(isInternalLink(u, realm), getPathsFromUrl(u, realm))

----------------------------------------------------------------------------
(* Numbers and strings.                                                    *)

RECURSIVE DigitsValue(_, _)
(* The number a string of decimal digits writes, added to 10 * acc.        *)
DigitsValue(ds, acc) ==
    IF ds = <<>> THEN acc ELSE DigitsValue(Tail(ds), 10 * acc + (CodeOf(Head(ds)) - 48))

(* The length of the run of decimal digits s starts with.                  *)
DigitRun(s) ==
    IF \A k \in 1..Len(s) : s[k] \in Digits THEN Len(s)
    ELSE CHOOSE n \in 0..Len(s) :
            /\ \A k \in 1..n : s[k] \in Digits
            /\ s[n + 1] \notin Digits

(* parseInt(s, 10): leading white space and a sign are skipped, the run of *)
(* digits that follows is the number, and there is NaN without one.        *)
parseInt(s) ==
    LET digits(u, negative) ==
            IF DigitRun(u) = 0 THEN [kind |-> "NaN"]
            ELSE [kind |-> "number",
                  n |-> IF negative
                        THEN 0 - DigitsValue(SubSeq(u, 1, DigitRun(u)), 0)
                        ELSE DigitsValue(SubSeq(u, 1, DigitRun(u)), 0)]
        sign(t) ==
            IF t # <<>> /\ Head(t) \in {"+", "-"}
            THEN digits(Tail(t), Head(t) = "-")
            ELSE digits(t, FALSE)
    IN sign(TrimSpaces(s))

RECURSIVE IntToStr(_)
(* String(n) for an integer n >= 0.                                        *)
IntToStr(n) ==
    IF n < 10 THEN <<Chr(48 + n)>> ELSE Append(IntToStr(n \div 10), Chr(48 + (n % 10)))

(* arr[i] of a JavaScript array of strings, i counted from 0; outside the  *)
(* array it is undefined, which the callers turn into 'undefined'.         *)
At(arr, i) == IF i + 1 \in 1..Len(arr) THEN arr[i + 1] ELSE <<"u", "n", "d", "e", "f", "i", "n", "e", "d">>

(* Array.prototype.lastIndexOf, counted from 0; -1 when x is no element.   *)
LastIndexOf(arr, x) ==
    IF \E i \in 1..Len(arr) : arr[i] = x
    THEN (CHOOSE i \in 1..Len(arr) : arr[i] = x /\ \A j \in (i + 1)..Len(arr) : arr[j] # x) - 1
    ELSE -1

(* The characters the '.' of a regular expression does not match.          *)
LineTerminators == {Chr(10), Chr(13), Chr(8232), Chr(8233)}

----------------------------------------------------------------------------
(* Streams and narrows.                                                    *)

(* streamsById and streamsByName: the maps of the known streams.           *)
StreamsById(ss) == [id \in {s.stream_id : s \in ss} |-> CHOOSE s \in ss : s.stream_id = id]

StreamsByName(ss) == [name \in {s.name : s \in ss} |-> CHOOSE s \in ss : s.name = name]

(* ./narrow: the narrow of a stream, of a topic in a stream, of one of the *)
(* special operands (specialNarrow throws on any other), and of a PM       *)
(* conversation.                                                           *)
streamNarrow(streamName) == [type |-> "stream", stream |-> streamName]

topicNarrow(streamName, topic) == [type |-> "topic", stream |-> streamName, topic |-> topic]

specialNarrow(operand) ==
    IF operand \in {<<"s", "t", "a", "r", "r", "e", "d">>, <<"m", "e", "n", "t", "i", "o", "n", "e", "d">>, <<"p", "r", "i", "v", "a", "t", "e">>}
    THEN [threw |-> FALSE, value |-> [type |-> "special", operand |-> operand]]
    ELSE [threw |-> TRUE]

(* ./recipient: the ids of a PM conversation without the own user, unless  *)
(* it is the conversation with oneself.                                    *)
pmKeyRecipientsFromIds(ids, ownUserId) ==
    IF {ids[k] : k \in 1..Len(ids)} = {ownUserId}
    THEN {ownUserId}
    ELSE {ids[k] : k \in 1..Len(ids)} \ {ownUserId}

pmNarrowFromRecipients(recipients) == [type |-> "pm", recipients |-> recipients]

(* The user the links are read for.                                        *)
ownUserId == parseInt(<<"1">>)

----------------------------------------------------------------------------
(* The operand parsers.                                                    *)

(* Whether the regular expression of the new stream operand format        *)
(* matches operand: a run of n >= 1 digits, then nothing more, or '-' and  *)
(* no line terminator up to the end.                                       *)
MatchesIdFormat(operand, n) ==
    /\ n >= 1
    /\ (n = Len(operand) \/ operand[n + 1] = "-")
    /\ \A k \in (n + 1)..Len(operand) : operand[k] \notin LineTerminators

(* parseStreamOperand trying the old name format first.                    *)
parseStreamOperand_nameFirst(operand, streamsById, streamsByName) ==
    LET byId(matchedId) ==
            IF matchedId \in DOMAIN streamsById
            THEN [threw |-> FALSE,
                  value |-> [kind |-> "pair", name |-> streamsById[matchedId].name,
                             stream_id |-> matchedId]]
            ELSE [threw |-> FALSE, value |-> [kind |-> "null"]]
        idFormat(n) ==
            IF MatchesIdFormat(operand, n)
            THEN byId(parseInt(SubSeq(operand, 1, n)).n)
            ELSE [threw |-> FALSE, value |-> [kind |-> "null"]]
        byName(decoded) ==
            IF decoded.threw THEN [threw |-> TRUE]
            ELSE IF decoded.value \in DOMAIN streamsByName
            THEN [threw |-> FALSE,
                  value |-> [kind |-> "pair", name |-> decoded.value,
                             stream_id |-> streamsByName[decoded.value].stream_id]]
            ELSE idFormat(DigitRun(operand))
    IN byName(decodeHashComponent(operand))

(* parseStreamOperand: [stream name, stream id], or null; it throws when   *)
(* decodeHashComponent does.                                               *)
parseStreamOperand(operand, streamsById, streamsByName) ==
    LET byName(decoded) ==
            IF decoded.threw THEN [threw |-> TRUE]
            ELSE IF decoded.value \in DOMAIN streamsByName
            THEN [threw |-> FALSE,
                  value |-> [kind |-> "pair", name |-> decoded.value,
                             stream_id |-> streamsByName[decoded.value].stream_id]]
            ELSE [threw |-> FALSE, value |-> [kind |-> "null"]]
        byId(matchedId) ==
            IF matchedId \in DOMAIN streamsById
            THEN [threw |-> FALSE,
                  value |-> [kind |-> "pair", name |-> streamsById[matchedId].name,
                             stream_id |-> matchedId]]
            ELSE byName(decodeHashComponent(operand))
        idFormat(n) ==
            IF MatchesIdFormat(operand, n)
            THEN byId(parseInt(SubSeq(operand, 1, n)).n)
            ELSE byName(decodeHashComponent(operand))
    IN idFormat(DigitRun(operand))

parseTopicOperand(operand) == decodeHashComponent(operand)

parsePmOperand(operand) ==
    LET ids(idStrs) == [k \in 1..Len(idStrs) |-> parseInt(idStrs[k])] IN
    ids(Split(Split(operand, <<"-">>)[1], <<",">>))

----------------------------------------------------------------------------
(* getNarrowFromLink, getMessageIdFromLink and getStreamURL.               *)

(* getNarrowFromLink: the narrow, or null (also what `streamNameAndId &&   *)
(* narrow` gives for null); it throws when a callee does.                  *)
getNarrowFromLink(u, realm, streamsById, streamsByName, own) ==
    LET null == [threw |-> FALSE, value |-> [kind |-> "null"]]
        narrow(n) == [threw |-> FALSE, value |-> [kind |-> "narrow", narrow |-> n]]
        topicCase(streamNameAndId, paths) ==
            IF streamNameAndId.threw THEN [threw |-> TRUE]
            ELSE IF streamNameAndId.value.kind = "null" THEN null
            ELSE LET withTopic(topic) ==
                         IF topic.threw THEN [threw |-> TRUE]
                         ELSE narrow(topicNarrow(streamNameAndId.value.name, topic.value))
                 IN withTopic(parseTopicOperand(At(paths, 3)))
        streamCase(streamNameAndId) ==
            IF streamNameAndId.threw THEN [threw |-> TRUE]
            ELSE IF streamNameAndId.value.kind = "null" THEN null
            ELSE narrow(streamNarrow(streamNameAndId.value.name))
        specialCase(special) ==
            \* the catch of specialNarrow's error
            IF special.threw THEN null ELSE narrow(special.value)
        switch(type, paths) ==
            IF type.threw THEN [threw |-> TRUE]
            ELSE CASE type.value = "pm" ->
                        narrow(pmNarrowFromRecipients(
                            pmKeyRecipientsFromIds(parsePmOperand(At(paths, 1)), own)))
                   [] type.value = "topic" ->
                        topicCase(parseStreamOperand(At(paths, 1), streamsById, streamsByName),
                                  paths)
                   [] type.value = "stream" ->
                        streamCase(parseStreamOperand(At(paths, 1), streamsById, streamsByName))
                   [] type.value = "special" -> specialCase(specialNarrow(At(paths, 1)))
                   [] OTHER -> null
    IN switch(getLinkType(u, realm), getPathsFromUrl(u, realm))

(* getMessageIdFromLink: the number it returns (NaN is one), or threw.     *)
getMessageIdFromLink(u, realm) ==
    LET idOf(message, paths) ==
            IF message.threw THEN [threw |-> TRUE]
            ELSE IF message.value
            THEN [threw |-> FALSE, value |-> parseInt(At(paths, LastIndexOf(paths, <<"n", "e", "a", "r">>) + 1))]
            ELSE [threw |-> FALSE, value |-> [kind |-> "number", n |-> 0]]
    IN idOf(isMessageLink(u, realm), getPathsFromUrl(u, realm))

(* String.prototype.replace(' ', '-'): the first space only.               *)
ReplaceFirstSpace(s) ==
    LET replaced(i) == IF i = 0 THEN s ELSE [k \in 1..Len(s) |-> IF k = i THEN "-" ELSE s[k]] IN
    replaced(FirstOf(s, {" "}))

(* getStreamURL with the slug left as it is, not dot-encoded.              *)
getStreamURL_slugNotEncoded(realm, id, streamsById) ==
    LET path(encodedStreamSlug) == NewURL(<<"#", "n", "a", "r", "r", "o", "w", "/", "s", "t", "r", "e", "a", "m", "/">> \o encodedStreamSlug, realm)
        slug(prettyStreamName) == path(IntToStr(id) \o <<"-">> \o prettyStreamName)
    IN slug(IF id \in DOMAIN streamsById
            THEN ReplaceFirstSpace(streamsById[id].name)
            ELSE <<"u", "n", "k", "n", "o", "w", "n">>)

getStreamURL(realm, id, streamsById) ==
    LET path(encodedStreamSlug) == NewURL(<<"#", "n", "a", "r", "r", "o", "w", "/", "s", "t", "r", "e", "a", "m", "/">> \o encodedStreamSlug, realm)
        slug(prettyStreamName) ==
            path(encodeHashComponent(IntToStr(id) \o <<"-">> \o prettyStreamName))
    IN slug(IF id \in DOMAIN streamsById
            THEN ReplaceFirstSpace(streamsById[id].name)
            ELSE <<"u", "n", "k", "n", "o", "w", "n">>)

----------------------------------------------------------------------------
(* The inputs of the link functions.                                       *)

(* The realm, new URL('https://z.io').                                     *)
realm ==
    [threw |-> FALSE, scheme |-> <<"h", "t", "t", "p", "s">>, special |-> TRUE, host |-> <<"z", ".", "i", "o">>,
     path |-> << <<>> >>, opaque |-> <<>>,
     hasQuery |-> FALSE, query |-> <<>>, hasFragment |-> FALSE, fragment |-> <<>>]

(* The streams there are: one with a plain name, one whose name is the id  *)
(* of another, and two whose names need encoding.                          *)
AllStreams ==
    { [stream_id |-> 1, name |-> <<"a", "b">>],
      [stream_id |-> 2, name |-> <<"1">>],
      [stream_id |-> 3, name |-> <<"a", " ", "b", ".">>],
      [stream_id |-> 4, name |-> <<Chr(233), "/", "%", "(">>] }

(* The sets of streams a user can know.                                    *)
StreamSets ==
    { {},
      AllStreams,
      {s \in AllStreams : s.stream_id # 1},
      {s \in AllStreams : s.stream_id = 1} }

(* Largest stream id handed to getStreamURL.                               *)
MaxStreamId == 4

(* The operands of a `stream` operator in the links.                       *)
StreamOperands ==
    { <<"1">>, <<"1", "-", "x">>, <<"2">>, <<"9">>, <<"9", "-", "x">>, <<"1", "x">>, <<"a", "b">>, <<"a", ".", "2", "0", "b", ".", "2", "E">>, <<"3", "-", "a", "-", "b", ".", "2", "E">>,
      <<".">>, <<"9", "-", ".">>, <<"1", "-", "n", "e", "a", "r", "b", "y">> }

(* What follows '#narrow/' in the links.                                   *)
NarrowPaths ==
    {<<>>}
    \cup {<<"s", "t", "r", "e", "a", "m", "/">> \o o : o \in StreamOperands}
    \cup {<<"s", "t", "r", "e", "a", "m", "/">> \o o \o <<"/", "t", "o", "p", "i", "c", "/", "t">> : o \in {<<"1">>, <<"9">>, <<"a", "b">>, <<".">>}}
    \cup { <<"s", "t", "r", "e", "a", "m", "/", "1", "/">>,
           <<"s", "t", "r", "e", "a", "m", "/", "1", "/", "t", "o", "p", "i", "c", "/", ".">>,
           <<"s", "t", "r", "e", "a", "m", "/", "1", "/", "s", "u", "b", "j", "e", "c", "t", "/", "t">>,
           <<"s", "t", "r", "e", "a", "m", "/", "1", "/", "n", "e", "a", "r", "/", "7">>,
           <<"s", "t", "r", "e", "a", "m", "/", "1", "/", "t", "o", "p", "i", "c", "/", "t", "/", "n", "e", "a", "r", "/", "1", "2">>,
           <<"s", "t", "r", "e", "a", "m", "/", "a", "b", "/", "s", "u", "b", "j", "e", "c", "t", "/", "t", "/", "n", "e", "a", "r", "/", "1", "2", "x">>,
           <<"s", "t", "r", "e", "a", "m", "/", "1", "/", "t", "o", "p", "i", "c", "/", "t", "/", "n", "e", "a", "r", "/">>,
           <<"s", "t", "r", "e", "a", "m", "/", "1", "/", "t", "o", "p", "i", "c", "/", "t", "/", "n", "e", "a", "r", "/", "x">>,
           <<"s", "t", "r", "e", "a", "m", "/", "1", "/", "t", "o", "p", "i", "c", "/", "n", "e", "a", "r">>,
           <<"s", "t", "r", "e", "a", "m", "/", "1", "/", "t", "o", "p", "i", "c", "/", "n", "e", "a", "r", "/", "n", "e", "a", "r", "/", "5">>,
           <<"p", "m", "-", "w", "i", "t", "h", "/", "1", ",", "2">>,
           <<"p", "m", "-", "w", "i", "t", "h", "/", "1", ",", "2", "-", "g", "r", "o", "u", "p", "/", "n", "e", "a", "r", "/", "3">>,
           <<"i", "s", "/", "p", "r", "i", "v", "a", "t", "e">>,
           <<"i", "s", "/", "S", "t", "a", "r", "r", "e", "d">>,
           <<"i", "s", "/", "p", "r", "i", "v", "a", "t", "e", "x">>,
           <<"i", "s", "/", "x">>,
           <<"n", "e", "a", "r", "/", "4">> }

(* The fragments of the links.                                             *)
Fragments ==
    {<<>>, <<"#">>, <<"#", "x">>, <<"#", "n", "a", "r", "r", "o", "w">>, <<"#", "N", "A", "R", "R", "O", "W", "/", "s", "t", "r", "e", "a", "m", "/", "1", "/", "n", "e", "a", "r", "/", "3">>, <<"#", "N", "a", "r", "r", "o", "w", "/", "i", "s", "/", "p", "r", "i", "v", "a", "t", "e">>}
    \cup {<<"#", "n", "a", "r", "r", "o", "w", "/">> \o p : p \in NarrowPaths}

(* What precedes the fragment: nothing, or the realm.                      *)
RealmPrefixes == {<<>>, <<"h", "t", "t", "p", "s", ":", "/", "/", "z", ".", "i", "o", "/">>}

(* Or something else: the realm written otherwise, a path or a query on    *)
(* the realm, another origin, and a scheme without a host.                 *)
OtherPrefixes ==
    { <<"h", "t", "t", "p", "s", ":", "/", "/", "z", ".", "i", "o">>, <<"H", "T", "T", "P", "S", ":", "/", "/", "Z", ".", "I", "O", "/">>, <<"/", "/", "z", ".", "i", "o", "/">>, <<"h", "t", "t", "p", "s", ":">>, <<"/">>, <<".", "/">>,
      <<"/", "p", "/">>, <<"p">>, <<"?", "q">>, <<"?">>, <<"h", "t", "t", "p", "s", ":", "/", "/", "z", ".", "i", "o", "/", "?", "q">>,
      <<"h", "t", "t", "p", "s", ":", "/", "/", "x", ".", "i", "o", "/">>, <<"h", "t", "t", "p", ":", "/", "/", "z", ".", "i", "o", "/">>, <<"m", "a", "i", "l", "t", "o", ":">>, <<"z", "u", "l", "i", "p", ":", "/", "/", "z", ".", "i", "o", "/">>,
      <<"h", "t", "t", "p", "s", ":", "/", "/">> }

OtherFragments ==
    {<<>>, <<"#", "n", "a", "r", "r", "o", "w", "/", "s", "t", "r", "e", "a", "m", "/", "1">>, <<"#", "n", "a", "r", "r", "o", "w", "/", "s", "t", "r", "e", "a", "m", "/", "1", "/", "t", "o", "p", "i", "c", "/", "t", "/", "n", "e", "a", "r", "/", "1", "2">>, <<"#", "n", "a", "r", "r", "o", "w", "/">>}

Urls ==
    {p \o f : p \in RealmPrefixes, f \in Fragments}
    \cup {p \o f : p \in OtherPrefixes, f \in OtherFragments}

----------------------------------------------------------------------------
(* The state machine of the link functions: a caller calls one function    *)
(* after another on a url, the known streams and a stream id.              *)

LinksInit ==
    /\ ActionsIdle
    /\ url \in Urls
    /\ streams \in StreamSets
    /\ streamId \in 1..MaxStreamId
    /\ str = <<>>
    /\ called = "none"
    /\ ret = [kind |-> "none"]

IsInternalLink ==
    /\ called' = "isInternalLink"
    /\ ret' = Returned(isInternalLink(url, realm), "boolean")
    /\ UNCHANGED <<url, streams, streamId, str>>
    /\ UNCHANGED actionVars

IsMessageLink ==
    /\ called' = "isMessageLink"
    /\ ret' = Returned(isMessageLink(url, realm), "boolean")
    /\ UNCHANGED <<url, streams, streamId, str>>
    /\ UNCHANGED actionVars

GetLinkType ==
    /\ called' = "getLinkType"
    /\ ret' = Returned(getLinkType(url, realm), "LinkType")
    /\ UNCHANGED <<url, streams, streamId, str>>
    /\ UNCHANGED actionVars

(* The call of parseStreamOperand that getNarrowFromLink makes for a       *)
(* 'stream' or a 'topic' link.                                             *)
ParseStreamOperand ==
    /\ getLinkType(url, realm) \in {[threw |-> FALSE, value |-> "stream"],
                                    [threw |-> FALSE, value |-> "topic"]}
    /\ called' = "parseStreamOperand"
    /\ ret' = Returned(parseStreamOperand(At(getPathsFromUrl(url, realm), 1),
                                          StreamsById(streams), StreamsByName(streams)),
                       "operand")
    /\ UNCHANGED <<url, streams, streamId, str>>
    /\ UNCHANGED actionVars

GetNarrowFromLink ==
    /\ called' = "getNarrowFromLink"
    /\ ret' = Returned(getNarrowFromLink(url, realm, StreamsById(streams),
                                         StreamsByName(streams), ownUserId),
                       "result")
    /\ UNCHANGED <<url, streams, streamId, str>>
    /\ UNCHANGED actionVars

GetMessageIdFromLink ==
    /\ called' = "getMessageIdFromLink"
    /\ ret' = Returned(getMessageIdFromLink(url, realm), "number")
    /\ UNCHANGED <<url, streams, streamId, str>>
    /\ UNCHANGED actionVars

(* getStreamURL(realm, streamId, streamsById); the caller goes on with the *)
(* URL it returned.                                                        *)
GetStreamURL ==
    /\ called' = "getStreamURL"
    /\ ret' = [kind |-> "URL", value |-> Href(getStreamURL(realm, streamId, StreamsById(streams)))]
    /\ url' = ret'.value
    /\ UNCHANGED <<streams, streamId, str>>
    /\ UNCHANGED actionVars

LinksNext ==
    \/ IsInternalLink
    \/ IsMessageLink
    \/ GetLinkType
    \/ ParseStreamOperand
    \/ GetNarrowFromLink
    \/ GetMessageIdFromLink
    \/ GetStreamURL

SpecLinks == LinksInit /\ [][LinksNext]_vars

----------------------------------------------------------------------------
(* The link functions against what is said of them.                        *)

(* C11: isInternalLink(url, realm) is true just if url, resolved against   *)
(* the realm, has the realm's origin, the path '/', an empty query and a   *)
(* fragment that starts with '#narrow/' in any case; for every other url   *)
(* it is false.                                                            *)
C11_InternalLinkJustIfNarrowOnRealm ==
    called = "isInternalLink" =>
        /\ ret.kind = "boolean"
        /\ ret.value <=>
              \E resolved \in {NewURL(url, realm)} :
                  /\ ~resolved.threw
                  /\ Origin(resolved) = Origin(realm)
                  /\ Pathname(resolved) = <<"/">>
                  /\ Search(resolved) = <<>>
                  /\ StartsWith(Lower(Hash(resolved)), <<"#", "n", "a", "r", "r", "o", "w", "/">>)

(* Whether the operand of a stream operator matches a known stream: it is  *)
(* '<id>' or '<id>-<text>' with a known id, or it decodes to a known name. *)
MatchesKnownStream(operand, ss) ==
    \/ \E n \in {DigitRun(operand)}, s \in ss :
          /\ MatchesIdFormat(operand, n)
          /\ DigitsValue(SubSeq(operand, 1, n), 0) = s.stream_id
    \/ \E decoded \in {decodeHashComponent(operand)}, s \in ss :
          ~decoded.threw /\ decoded.value = s.name

(* Whether url is a 'stream' or a 'topic' link.                            *)
IsStreamLink(u) ==
    getLinkType(u, realm) \in {[threw |-> FALSE, value |-> "stream"],
                               [threw |-> FALSE, value |-> "topic"]}

(* C12: for a 'stream' or 'topic' link whose stream operand matches no     *)
(* known stream, parseStreamOperand returns null and getNarrowFromLink     *)
(* returns null.                                                           *)
C12_UnknownStreamGivesNull ==
    ( /\ called \in {"parseStreamOperand", "getNarrowFromLink"}
      /\ IsStreamLink(url)
      /\ ~MatchesKnownStream(At(getPathsFromUrl(url, realm), 1), streams) )
    => /\ ret.kind \in {"operand", "result"}
       /\ ret.value = [kind |-> "null"]

(* C13: if the operand is digits, optionally followed by '-' and a text,   *)
(* and a stream with that id is known, parseStreamOperand returns that     *)
(* stream with its current name; otherwise, if the operand dot-decodes to  *)
(* the name of a known stream, it returns that stream.                     *)
C13_IdFormatFirstThenName ==
    called = "parseStreamOperand" =>
        \A operand \in {At(getPathsFromUrl(url, realm), 1)} :
            \A n \in {DigitRun(operand)} :
                IF /\ MatchesIdFormat(operand, n)
                   /\ \E s \in streams : s.stream_id = DigitsValue(SubSeq(operand, 1, n), 0)
                THEN \E s \in streams :
                        /\ s.stream_id = DigitsValue(SubSeq(operand, 1, n), 0)
                        /\ ret = [kind |-> "operand",
                                  value |-> [kind |-> "pair", name |-> s.name,
                                             stream_id |-> s.stream_id]]
                ELSE \A decoded \in {decodeHashComponent(operand)}, s \in streams :
                        (~decoded.threw /\ decoded.value = s.name)
                        => ret = [kind |-> "operand",
                                  value |-> [kind |-> "pair", name |-> s.name,
                                             stream_id |-> s.stream_id]]

(* The operand '1' is the id of one known stream and the name of another:  *)
(* the stream with the id is returned.                                     *)
C13_Witness ==
    /\ called = "parseStreamOperand"
    /\ At(getPathsFromUrl(url, realm), 1) = <<"1">>
    /\ [stream_id |-> 2, name |-> <<"1">>] \in streams
    /\ ret = [kind |-> "operand",
              value |-> [kind |-> "pair", name |-> <<"a", "b">>, stream_id |-> 1]]

(* Whether url is what getStreamURL returns for streamId, a known stream.  *)
IsStreamURL ==
    /\ \E s \in streams : s.stream_id = streamId
    /\ url = Href(getStreamURL(realm, streamId, StreamsById(streams)))

(* C15: the URL getStreamURL returns for a known stream id is of type      *)
(* 'stream' for getLinkType, and getNarrowFromLink on it returns the       *)
(* stream narrow of the name of that stream.                               *)
C15_StreamURLPointsToStreamNarrow ==
    IsStreamURL =>
        /\ called = "getLinkType" => ret = [kind |-> "LinkType", value |-> "stream"]
        /\ called = "getNarrowFromLink" =>
              \E s \in streams :
                  /\ s.stream_id = streamId
                  /\ ret = [kind |-> "result",
                            value |-> [kind |-> "narrow", narrow |-> streamNarrow(s.name)]]

(* getNarrowFromLink on the URL of the stream whose name has a character   *)
(* outside ASCII, a slash, a percent sign and a parenthesis.               *)
C15_Witness ==
    /\ IsStreamURL
    /\ streamId = MaxStreamId
    /\ called = "getNarrowFromLink"
    /\ ret = [kind |-> "result",
              value |-> [kind |-> "narrow",
                         narrow |-> streamNarrow(<<Chr(233), "/", "%", "(">>)]]

(* C16: what getMessageIdFromLink returns is a number, never NaN: 0 for a  *)
(* url that is no internal link with a 'near' path segment, and else the   *)
(* integer in the segment after the last 'near'.                           *)
C16_MessageIdWellDefined ==
    (called = "getMessageIdFromLink" /\ ret.kind = "number") =>
        /\ ret.value.kind = "number"
        /\ \A paths \in {getPathsFromUrl(url, realm)} :
              IF /\ isInternalLink(url, realm) = [threw |-> FALSE, value |-> TRUE]
                 /\ LastIndexOf(paths, <<"n", "e", "a", "r">>) >= 0
              THEN ret.value = parseInt(At(paths, LastIndexOf(paths, <<"n", "e", "a", "r">>) + 1))
              ELSE ret.value.n = 0
====
